---- MODULE Spec2Model ----
(***************************************************************************)
(* The playlist transfer service: the transfer route (POST /api/transfer), *)
(* the transfer engine (transferPlaylist) it drives, and the platform      *)
(* adapters' addTracks.  One step of the model is one turn of the          *)
(* JavaScript event loop: the code between two awaits runs atomically.     *)
(***************************************************************************)
EXTENDS Integers, Sequences, FiniteSets, TLC

\* ------------------------------------------------------------------ bounds

\* Largest number of tracks the source adapter returns for a playlist.
MaxTracks == 3

\* Longest track list handed to an adapter's addTracks.
MaxAddTracks == 2

\* Longest chain of result pages a platform serves for one playlist, and the
\* largest number of items on one page.
MaxPages == 2
MaxPageItems == 2

\* Largest number of places, other than the boundaries between events, where
\* the transport cuts the response body into chunks.
MaxMidCuts == 1

\* The request slots of the server: two POSTs may be in progress at once.
Runs == {"r1", "r2"}

\* ------------------------------------------------------------------ state

VARIABLES
    pc,               \* per request: where the handler / engine is suspended
    playlistId,       \* per request: the playlistId of the request body
    status,           \* per request: HTTP status of the response (0: none yet)
    stream,           \* per request: events enqueued on the response stream
    closed,           \* per request: controller.close() has been called
    calls,            \* per request: adapter calls the engine has issued
    responses,        \* per request: what each resolved call answered, in order
    error,            \* per request: message of the Error thrown ("": none)
    pending,          \* per request: adapter calls issued and not yet resolved
    sourcePlaylist,   \* per request: <<>> or <<the located Playlist>>
    sourceTracks,     \* per request: the tracks read from the source
    targetPlaylistId, \* per request: id returned by createPlaylist (0: none)
    loopIdx,          \* per request: the matching loop's i
    matched,          \* per request: matched[]
    unmatched,        \* per request: unmatched[]
    addResult,        \* per request: <<>> or <<what addTracks returned>>
    result,           \* per request: <<>> or <<the TransferResult returned>>
    targetPlaylists,  \* the target platform: ids of the playlists created
    add,              \* one adapter-level addTracks call: its activation record
    search,           \* one adapter-level searchTrack call: input, answers, outcome
    auth,             \* one adapter-level handleCallback call: input, answer, outcome
    posted,           \* <<>> or <<the body of the transfer request received>>
    get,              \* one GET /api/playlists/[provider]: its activation record
    registry,         \* the providers Map: its entries, in insertion order
    listing,          \* one adapter-level getPlaylistTracks call: its activation record
    client            \* the browser client: its React state and the response it reads

engineVars == <<pc, playlistId, status, stream, closed, calls, responses,
                error, pending, sourcePlaylist,
                sourceTracks, targetPlaylistId, loopIdx, matched, unmatched,
                addResult, result, targetPlaylists>>

\* What the transfer route and the engine never touch; the route's handler
\* is given the request body, which posted records.
handlerFrame == <<add, search, auth, get, registry, listing, client>>
otherVars == <<handlerFrame, posted>>

\* What the adapter-level calls and the playlists route leave alone.
addFrame == <<engineVars, search, auth, posted, get, registry, listing, client>>
searchFrame == <<engineVars, add, auth, posted, get, registry, listing, client>>
authFrame == <<engineVars, add, search, posted, get, registry, listing, client>>
getFrame == <<engineVars, add, search, auth, posted, registry, listing, client>>
readFrame == <<engineVars, add, search, auth, posted, get, registry, client>>
clientFrame == <<engineVars, add, search, auth, posted, get, registry, listing>>

vars == <<engineVars, otherVars>>

\* ------------------------------------------------------------------ registry

ProviderIds == <<"spotify", "youtube-music", "apple-music", "kkbox">>

\* The name field of each adapter instance, in the same order.
ProviderDisplayNames == <<"Spotify", "YouTube Music", "Apple Music", "KKBox">>

\* The Map as the module builds it when it is loaded: one adapter instance
\* per id.
Registry ==
    [k \in 1..Len(ProviderIds) |->
        [id |-> ProviderIds[k], name |-> ProviderDisplayNames[k]]]

\* Variant: an id that is not registered falls back to the first adapter.
getProviderOrDefault(name) ==
    LET hit == {k \in 1..Len(registry) : registry[k].id = name}
    IN  IF hit = {} THEN <<registry[1]>> ELSE <<registry[CHOOSE k \in hit : TRUE]>>

\* providers.get(name): <<>> stands for undefined.
getProvider(name) ==
    LET hit == {k \in 1..Len(registry) : registry[k].id = name}
    IN  IF hit = {} THEN <<>> ELSE <<registry[CHOOSE k \in hit : TRUE]>>

\* Array.from(providers.entries()).map(([id, provider]) => ({id, name})).
getProviderList ==
    [k \in 1..Len(registry) |-> [id |-> registry[k].id, name |-> registry[k].name]]

\* ------------------------------------------------------------------ data

Min(S) == CHOOSE x \in S : \A y \in S : x <= y

SourceTrack(k) == [origin |-> "source", id |-> k]
TargetIds == {11, 12}
TargetTrack(x) == [origin |-> "target", id |-> x]

\* Playlist as getPlaylists builds it: tracks empty, trackCount as advertised.
Playlist(id, cnt) == [id |-> id, trackCount |-> cnt, tracks |-> <<>>]

\* TransferProgress as the route serialises it (no "type" field on the wire:
\* modelled as type "progress"); the message text is not modelled.
Progress(phase, current, total) ==
    [type |-> "progress", phase |-> phase, current |-> current,
     total |-> total, result |-> <<>>, error |-> ""]

FinalEvent(res) ==
    [type |-> "complete", phase |-> "", current |-> 0, total |-> 0,
     result |-> <<res>>, error |-> ""]

ErrorEvent(msg) ==
    [type |-> "error", phase |-> "", current |-> 0, total |-> 0,
     result |-> <<>>, error |-> msg]

TransferResult(sp, tid, m, u, n) ==
    [sourcePlaylist |-> sp, targetPlaylistId |-> tid, matched |-> m,
     unmatched |-> u, totalTracks |-> n]

\* An adapter call as the engine issues it; "after" is the number of events
\* already on the stream when the call starts.
Call(side, op, playlist, target, tracks, after) ==
    [side |-> side, op |-> op, playlist |-> playlist, target |-> target,
     tracks |-> tracks, after |-> after]

\* ------------------------------------------------------------------ inputs

\* Request bodies: a field that is missing (or empty) is "".
ProviderNames == {"", "tidal"} \cup {ProviderIds[k] : k \in 1..Len(ProviderIds)}

Requests ==
    [json : {TRUE}, sourceProvider : ProviderNames,
     targetProvider : ProviderNames, sourceToken : {"", "tokS"},
     targetToken : {"", "tokT"}, playlistId : {"", "p1"}]

\* A body request.json() cannot parse.
MalformedRequest ==
    [json |-> FALSE, sourceProvider |-> "", targetProvider |-> "",
     sourceToken |-> "", targetToken |-> "", playlistId |-> ""]

\* What the source adapter's getPlaylists may return: the requested playlist
\* absent, or present twice (first with a stale trackCount) after another.
Listings ==
    { <<>>,
      <<Playlist("p2", 1)>>,
      <<Playlist("p2", 1), Playlist("p1", MaxTracks + 1),
        Playlist("p1", 0)>> }

GetPlaylistsResponses ==
    {[kind |-> "raise", value |-> <<>>]}
        \cup {[kind |-> "ok", value |-> l] : l \in Listings}

TrackList(n) == [k \in 1..n |-> SourceTrack(k)]

GetPlaylistTracksResponses(maxN) ==
    {[kind |-> "raise", value |-> <<>>]}
        \cup {[kind |-> "ok", value |-> TrackList(n)] : n \in 0..maxN}

CreatePlaylistResponses == {"raise", "ok"}

\* What the target adapter's searchTrack may answer for a source track: it
\* raises, finds nothing, or finds the target platform's track for it.
SearchTrackResponses(track) ==
    {[kind |-> "raise", track |-> <<>>], [kind |-> "miss", track |-> <<>>],
     [kind |-> "hit", track |-> <<TargetTrack(track.id)>>]}

AddTracksResponses(m) ==
    {[kind |-> "raise", added |-> 0, failed |-> 0]}
        \cup {[kind |-> "ok", added |-> a, failed |-> Len(m) - a] : a \in 0..Len(m)}

\* ------------------------------------------------------------------ engine

\* Variant: falls back to the first playlist of the listing when none matches.
FindOrFirst(playlists, id) ==
    LET hit == {k \in 1..Len(playlists) : playlists[k].id = id}
    IN  IF hit # {} THEN <<playlists[Min(hit)]>>
        ELSE IF playlists # <<>> THEN <<playlists[1]>> ELSE <<>>

\* playlists.find((p) => p.id === playlistId): the first match, or none.
Find(playlists, id) ==
    LET hit == {k \in 1..Len(playlists) : playlists[k].id = id}
    IN  IF hit = {} THEN <<>> ELSE <<playlists[Min(hit)]>>

\* Variant: the tracks are stored and the advertised trackCount is kept.
ReadIntoKeepingCount(sp, tracks) ==
    [sp EXCEPT !.tracks = tracks]

\* sourcePlaylist.tracks = sourceTracks; sourcePlaylist.trackCount = length.
ReadInto(sp, tracks) ==
    [sp EXCEPT !.tracks = tracks, !.trackCount = Len(tracks)]

\* Variant: a miss is bucketed nowhere (the else branch is missing).
BucketHitsOnly(resp, track, m, u) ==
    IF resp.kind = "hit"
    THEN [matched |-> Append(m, resp.track[1]), unmatched |-> u]
    ELSE [matched |-> m, unmatched |-> u]

\* Variant: a hit is put in front of matched (unshift instead of push).
BucketUnshift(resp, track, m, u) ==
    IF resp.kind = "hit"
    THEN [matched |-> <<resp.track[1]>> \o m, unmatched |-> u]
    ELSE [matched |-> m, unmatched |-> Append(u, track)]

\* Variant: the source track is pushed on unmatched whether found or not.
BucketAlwaysUnmatched(resp, track, m, u) ==
    IF resp.kind = "hit"
    THEN [matched |-> Append(m, resp.track[1]), unmatched |-> Append(u, track)]
    ELSE [matched |-> m, unmatched |-> Append(u, track)]

\* if (found) matched.push(found) else unmatched.push(track)
Bucket(resp, track, m, u) ==
    IF resp.kind = "hit"
    THEN [matched |-> Append(m, resp.track[1]), unmatched |-> u]
    ELSE [matched |-> m, unmatched |-> Append(u, track)]

\* The progress events of the phase table.
FetchingEvent == Progress("fetching", 0, 0)
\* Variant: the reading event carries the phase of the step before it.
ReadingEventMislabelled == Progress("fetching", 0, 0)
ReadingEvent == Progress("reading", 0, 0)
CreatingEvent(n) == Progress("creating", 0, n)
\* Variant: the matching event carries the loop index, counted from 0.
MatchingEventFromZero(i, n) == Progress("matching", i, n)
MatchingEvent(i, n) == Progress("matching", i + 1, n)
TransferringEvent(m) == Progress("transferring", 0, Len(m))
\* Variant: the complete event carries the two counts the other way round.
CompleteEventSwapped(m, n) == Progress("complete", n, Len(m))
CompleteEvent(m, n) == Progress("complete", Len(m), n)

\* Variant: the searches for all remaining tracks are started at once.
SearchCallsAll(tracks, i, after) ==
    [k \in 1..(Len(tracks) - i) |->
        Call("target", "searchTrack", "", 0, <<tracks[i + k]>>, after)]

\* The searchTrack calls one loop iteration starts: the one for track i.
SearchCalls(tracks, i, after) ==
    <<Call("target", "searchTrack", "", 0, <<tracks[i + 1]>>, after)>>

\* Variant: addTracks is called before the transferring event is emitted.
AddTracksCallBeforeEvent(tid, m, after) ==
    Call("target", "addTracks", "", tid, m, after - 1)

\* The addTracks call: the created playlist's id and the matched list.
AddTracksCall(tid, m, after) ==
    Call("target", "addTracks", "", tid, m, after)

\* Variant: a rejection is swallowed and the engine carries on.
RejectedSwallowed(kind) == FALSE

\* An awaited adapter call raised: the await rethrows.
Rejected(kind) == kind = "raise"

\* Variant: the engine catches the failure and returns what it has so far.
ThrowPartialResult(r, msg) ==
    /\ pc' = [pc EXCEPT ![r] = "returned"]
    /\ result' = [result EXCEPT ![r] =
          <<TransferResult(sourcePlaylist[r], targetPlaylistId[r], matched[r],
                           unmatched[r], Len(sourceTracks[r]))>>]
    /\ pending' = [pending EXCEPT ![r] = Tail(@)]
    /\ UNCHANGED <<otherVars, playlistId, status, stream, closed, calls, error,
                   sourcePlaylist, sourceTracks, targetPlaylistId, loopIdx,
                   matched, unmatched, addResult, targetPlaylists>>

\* Variant: the failure path deletes the playlist the run created.
ThrowWithRollback(r, msg) ==
    /\ pc' = [pc EXCEPT ![r] = "threw"]
    /\ error' = [error EXCEPT ![r] = msg]
    /\ pending' = [pending EXCEPT ![r] = Tail(@)]
    /\ targetPlaylists' =
          SelectSeq(targetPlaylists, LAMBDA id : id # targetPlaylistId[r])
    /\ UNCHANGED <<otherVars, playlistId, status, stream, closed, calls,
                   sourcePlaylist, sourceTracks, targetPlaylistId, loopIdx,
                   matched, unmatched, addResult, result>>

\* Variant: the exception is swallowed and the promise the route awaits is
\* never settled.
ThrowNeverSettles(r, msg) ==
    /\ pc' = [pc EXCEPT ![r] = "hung"]
    /\ pending' = [pending EXCEPT ![r] = Tail(@)]
    /\ UNCHANGED <<otherVars, playlistId, status, stream, closed, calls, error,
                   sourcePlaylist, sourceTracks, targetPlaylistId, loopIdx,
                   matched, unmatched, addResult, result, targetPlaylists>>

\* The exception leaves transferPlaylist (the engine has no try/catch): the
\* promise the route awaits is rejected; nothing else changes.
Throw(r, msg) ==
    /\ pc' = [pc EXCEPT ![r] = "threw"]
    /\ error' = [error EXCEPT ![r] = msg]
    /\ pending' = [pending EXCEPT ![r] = Tail(@)]
    /\ UNCHANGED <<otherVars, playlistId, status, stream, closed, calls, sourcePlaylist,
                   sourceTracks, targetPlaylistId, loopIdx, matched, unmatched,
                   addResult, result, targetPlaylists>>

\* Variant: matched and unmatched are module-level arrays, one pair for all runs.
LoopHeadSharedBuckets(r, i, m, u, tid) ==
    LET n == Len(sourceTracks[r])
        ev == IF i < n THEN MatchingEvent(i, n) ELSE TransferringEvent(m)
        after == Len(stream[r]) + 1
        issued == IF i < n THEN SearchCalls(sourceTracks[r], i, after)
                  ELSE <<AddTracksCall(tid, m, after)>>
    IN  /\ loopIdx' = [loopIdx EXCEPT ![r] = i]
        /\ matched' = [q \in Runs |-> m]
        /\ unmatched' = [q \in Runs |-> u]
        /\ stream' = [stream EXCEPT ![r] = Append(@, ev)]
        /\ calls' = [calls EXCEPT ![r] = @ \o issued]
        /\ pending' = [pending EXCEPT ![r] = Tail(@) \o issued]
        /\ pc' = [pc EXCEPT ![r] = IF i < n THEN "searchTrack" ELSE "addTracks"]

\* The head of the matching loop with i, matched and unmatched as given:
\* either the next iteration (progress event, then searchTrack) or, past the
\* last track, step 5 (progress event, then addTracks).
LoopHead(r, i, m, u, tid) ==
    LET n == Len(sourceTracks[r])
        ev == IF i < n THEN MatchingEvent(i, n) ELSE TransferringEvent(m)
        after == Len(stream[r]) + 1
        issued == IF i < n THEN SearchCalls(sourceTracks[r], i, after)
                  ELSE <<AddTracksCall(tid, m, after)>>
    IN  /\ loopIdx' = [loopIdx EXCEPT ![r] = i]
        /\ matched' = [matched EXCEPT ![r] = m]
        /\ unmatched' = [unmatched EXCEPT ![r] = u]
        /\ stream' = [stream EXCEPT ![r] = Append(@, ev)]
        /\ calls' = [calls EXCEPT ![r] = @ \o issued]
        /\ pending' = [pending EXCEPT ![r] = Tail(@) \o issued]
        /\ pc' = [pc EXCEPT ![r] = IF i < n THEN "searchTrack" ELSE "addTracks"]

\* The pending call is answered: kind, and the value it carries.
Resolved(r, kind, value) ==
    responses' = [responses EXCEPT ![r] = Append(@, [kind |-> kind, value |-> value])]

\* Validation of the request body, as the route does it.
MissingField(req) ==
    \/ req.sourceProvider = "" \/ req.targetProvider = ""
    \/ req.sourceToken = "" \/ req.targetToken = "" \/ req.playlistId = ""

\* Variant: only the source provider is looked up before the stream is opened.
InvalidSourceProviderOnly(req) ==
    getProvider(req.sourceProvider) = <<>>

InvalidProvider(req) ==
    getProvider(req.sourceProvider) = <<>> \/ getProvider(req.targetProvider) = <<>>

\* The response is a plain JSON answer with this status; no stream is opened.
Answer(r, code) ==
    /\ pc' = [pc EXCEPT ![r] = "done"]
    /\ status' = [status EXCEPT ![r] = code]
    /\ UNCHANGED <<handlerFrame, playlistId, stream, closed, calls, responses, error,
                   pending, sourcePlaylist, sourceTracks, targetPlaylistId,
                   loopIdx, matched, unmatched, addResult, result,
                   targetPlaylists>>

\* new ReadableStream({start}) runs start at once: transferPlaylist emits
\* "fetching" and suspends in getPlaylists; the 200 response is returned.
StartTransfer(r, req) ==
    LET c == Call("source", "getPlaylists", "", 0, <<>>, 1)
    IN  /\ pc' = [pc EXCEPT ![r] = "getPlaylists"]
        /\ status' = [status EXCEPT ![r] = 200]
        /\ playlistId' = [playlistId EXCEPT ![r] = req.playlistId]
        /\ stream' = [stream EXCEPT ![r] = Append(@, FetchingEvent)]
        /\ calls' = [calls EXCEPT ![r] = Append(@, c)]
        /\ pending' = [pending EXCEPT ![r] = Append(@, c)]
        /\ UNCHANGED <<handlerFrame, closed, responses, error, sourcePlaylist,
                       sourceTracks, targetPlaylistId, loopIdx, matched, unmatched,
                       addResult, result, targetPlaylists>>

\* The handler of POST /api/transfer, given the request body.
PostWith(r, req) ==
    IF ~req.json THEN Answer(r, 500)
    ELSE IF MissingField(req) \/ InvalidProvider(req) THEN Answer(r, 400)
    ELSE StartTransfer(r, req)

\* POST /api/transfer.
Post(r) ==
    /\ pc[r] = "idle"
    /\ \E req \in Requests \cup {MalformedRequest} : PostWith(r, req)
    /\ UNCHANGED posted

\* getPlaylists resolves: locate the playlist, then step 2.
ResolveGetPlaylists(r) ==
    /\ pc[r] = "getPlaylists"
    /\ \E resp \in GetPlaylistsResponses :
          LET found == Find(resp.value, playlistId[r])
              c == Call("source", "getPlaylistTracks", playlistId[r], 0, <<>>,
                        Len(stream[r]) + 1)
          IN  /\ Resolved(r, resp.kind, resp.value)
              /\ IF Rejected(resp.kind) THEN Throw(r, "adapter")
                 ELSE IF found = <<>> THEN Throw(r, "not found")
                 ELSE /\ sourcePlaylist' = [sourcePlaylist EXCEPT ![r] = found]
                      /\ stream' = [stream EXCEPT ![r] = Append(@, ReadingEvent)]
                      /\ calls' = [calls EXCEPT ![r] = Append(@, c)]
                      /\ pending' = [pending EXCEPT ![r] = Append(Tail(@), c)]
                      /\ pc' = [pc EXCEPT ![r] = "getPlaylistTracks"]
                      /\ UNCHANGED <<otherVars, playlistId, status, closed, error,
                                     sourceTracks, targetPlaylistId, loopIdx,
                                     matched, unmatched, addResult, result,
                                     targetPlaylists>>

\* getPlaylistTracks resolves: overwrite the playlist's tracks, then step 3.
ResolveGetPlaylistTracks(r, maxN) ==
    /\ pc[r] = "getPlaylistTracks"
    /\ \E resp \in GetPlaylistTracksResponses(maxN) :
          LET c == Call("target", "createPlaylist", "", 0, <<>>,
                        Len(stream[r]) + 1)
          IN  /\ Resolved(r, resp.kind, resp.value)
              /\ IF Rejected(resp.kind) THEN Throw(r, "adapter")
                 ELSE /\ sourceTracks' = [sourceTracks EXCEPT ![r] = resp.value]
                      /\ sourcePlaylist' = [sourcePlaylist EXCEPT ![r] =
                                              <<ReadInto(@[1], resp.value)>>]
                      /\ stream' = [stream EXCEPT ![r] =
                                      Append(@, CreatingEvent(Len(resp.value)))]
                      /\ calls' = [calls EXCEPT ![r] = Append(@, c)]
                      /\ pending' = [pending EXCEPT ![r] = Append(Tail(@), c)]
                      /\ pc' = [pc EXCEPT ![r] = "createPlaylist"]
                      /\ UNCHANGED <<otherVars, playlistId, status, closed, error,
                                     targetPlaylistId, loopIdx, matched,
                                     unmatched, addResult, result,
                                     targetPlaylists>>

\* Variant: a playlist already created on the target is reused, not created anew.
ResolveCreatePlaylistReusing(r) ==
    /\ pc[r] = "createPlaylist"
    /\ \E kind \in CreatePlaylistResponses :
          LET tid == IF targetPlaylists = <<>> THEN 1 ELSE targetPlaylists[1]
          IN  /\ Resolved(r, kind, IF kind = "ok" THEN <<tid>> ELSE <<>>)
              /\ IF Rejected(kind) THEN Throw(r, "adapter")
                 ELSE /\ targetPlaylists' = IF targetPlaylists = <<>> THEN <<tid>>
                                              ELSE targetPlaylists
                      /\ targetPlaylistId' = [targetPlaylistId EXCEPT ![r] = tid]
                      /\ LoopHead(r, 0, <<>>, <<>>, tid)
                      /\ UNCHANGED <<otherVars, playlistId, status, closed, error,
                                     sourcePlaylist, sourceTracks, addResult,
                                     result>>

\* createPlaylist resolves with a fresh id: step 4 starts with empty buckets.
ResolveCreatePlaylist(r) ==
    /\ pc[r] = "createPlaylist"
    /\ \E kind \in CreatePlaylistResponses :
          LET tid == Len(targetPlaylists) + 1
          IN  /\ Resolved(r, kind, IF kind = "ok" THEN <<tid>> ELSE <<>>)
              /\ IF Rejected(kind) THEN Throw(r, "adapter")
                 ELSE /\ targetPlaylists' = Append(targetPlaylists, tid)
                      /\ targetPlaylistId' = [targetPlaylistId EXCEPT ![r] = tid]
                      /\ LoopHead(r, 0, <<>>, <<>>, tid)
                      /\ UNCHANGED <<otherVars, playlistId, status, closed, error,
                                     sourcePlaylist, sourceTracks, addResult,
                                     result>>

\* Variant: a track that is not found fails the transfer.
ResolveSearchTrackAbortingOnMiss(r) ==
    /\ pc[r] = "searchTrack"
    /\ \E resp \in SearchTrackResponses(sourceTracks[r][loopIdx[r] + 1]) :
          LET track == sourceTracks[r][loopIdx[r] + 1]
              b == Bucket(resp, track, matched[r], unmatched[r])
          IN  /\ Resolved(r, resp.kind, resp.track)
              /\ IF Rejected(resp.kind) \/ resp.kind = "miss" THEN Throw(r, "adapter")
                 ELSE /\ LoopHead(r, loopIdx[r] + 1, b.matched, b.unmatched,
                                  targetPlaylistId[r])
                      /\ UNCHANGED <<otherVars, playlistId, status, closed, error,
                                     sourcePlaylist, sourceTracks,
                                     targetPlaylistId, addResult, result,
                                     targetPlaylists>>

\* Variant: a search that raises is caught and its track counted as not found.
ResolveSearchTrackCatching(r) ==
    /\ pc[r] = "searchTrack"
    /\ \E resp \in SearchTrackResponses(sourceTracks[r][loopIdx[r] + 1]) :
          LET track == sourceTracks[r][loopIdx[r] + 1]
              b == Bucket(resp, track, matched[r], unmatched[r])
          IN  /\ Resolved(r, resp.kind, resp.track)
              /\ IF resp.kind = "fatal" THEN Throw(r, "adapter")
                 ELSE /\ LoopHead(r, loopIdx[r] + 1, b.matched, b.unmatched,
                                  targetPlaylistId[r])
                      /\ UNCHANGED <<otherVars, playlistId, status, closed, error,
                                     sourcePlaylist, sourceTracks,
                                     targetPlaylistId, addResult, result,
                                     targetPlaylists>>

\* searchTrack resolves for track i: bucket it, i++, back to the loop head.
ResolveSearchTrack(r) ==
    /\ pc[r] = "searchTrack"
    /\ \E resp \in SearchTrackResponses(sourceTracks[r][loopIdx[r] + 1]) :
          LET track == sourceTracks[r][loopIdx[r] + 1]
              b == Bucket(resp, track, matched[r], unmatched[r])
          IN  /\ Resolved(r, resp.kind, resp.track)
              /\ IF Rejected(resp.kind) THEN Throw(r, "adapter")
                 ELSE /\ LoopHead(r, loopIdx[r] + 1, b.matched, b.unmatched,
                                  targetPlaylistId[r])
                      /\ UNCHANGED <<otherVars, playlistId, status, closed, error,
                                     sourcePlaylist, sourceTracks,
                                     targetPlaylistId, addResult, result,
                                     targetPlaylists>>

\* Variant: the result lists only as many matched tracks as addTracks added.
ResolveAddTracksReportingAdded(r) ==
    /\ pc[r] = "addTracks"
    /\ \E resp \in AddTracksResponses(matched[r]) :
          /\ Resolved(r, resp.kind,
                      IF resp.kind = "ok"
                      THEN <<[added |-> resp.added, failed |-> resp.failed]>>
                      ELSE <<>>)
          /\ IF Rejected(resp.kind) THEN Throw(r, "adapter")
             ELSE /\ addResult' = [addResult EXCEPT ![r] =
                                     <<[added |-> resp.added, failed |-> resp.failed]>>]
                  /\ stream' = [stream EXCEPT ![r] =
                        Append(@, CompleteEvent(matched[r], Len(sourceTracks[r])))]
                  /\ result' = [result EXCEPT ![r] =
                        <<TransferResult(sourcePlaylist[r][1], targetPlaylistId[r],
                                         SubSeq(matched[r], 1, resp.added),
                                         unmatched[r],
                                         Len(sourceTracks[r]))>>]
                  /\ pending' = [pending EXCEPT ![r] = Tail(@)]
                  /\ pc' = [pc EXCEPT ![r] = "returned"]
                  /\ UNCHANGED <<otherVars, playlistId, status, closed, calls, error,
                                 sourcePlaylist, sourceTracks, targetPlaylistId,
                                 loopIdx, matched, unmatched, targetPlaylists>>

\* addTracks resolves: emit "complete" and return the TransferResult.
ResolveAddTracks(r) ==
    /\ pc[r] = "addTracks"
    /\ \E resp \in AddTracksResponses(matched[r]) :
          /\ Resolved(r, resp.kind,
                      IF resp.kind = "ok"
                      THEN <<[added |-> resp.added, failed |-> resp.failed]>>
                      ELSE <<>>)
          /\ IF Rejected(resp.kind) THEN Throw(r, "adapter")
             ELSE /\ addResult' = [addResult EXCEPT ![r] =
                                     <<[added |-> resp.added, failed |-> resp.failed]>>]
                  /\ stream' = [stream EXCEPT ![r] =
                        Append(@, CompleteEvent(matched[r], Len(sourceTracks[r])))]
                  /\ result' = [result EXCEPT ![r] =
                        <<TransferResult(sourcePlaylist[r][1], targetPlaylistId[r],
                                         matched[r], unmatched[r],
                                         Len(sourceTracks[r]))>>]
                  /\ pending' = [pending EXCEPT ![r] = Tail(@)]
                  /\ pc' = [pc EXCEPT ![r] = "returned"]
                  /\ UNCHANGED <<otherVars, playlistId, status, closed, calls, error,
                                 sourcePlaylist, sourceTracks, targetPlaylistId,
                                 loopIdx, matched, unmatched, targetPlaylists>>

\* The route's await resumes with the result: final event, then close.
RouteFinish(r) ==
    /\ pc[r] = "returned"
    /\ stream' = [stream EXCEPT ![r] = Append(@, FinalEvent(result[r][1]))]
    /\ closed' = [closed EXCEPT ![r] = TRUE]
    /\ pc' = [pc EXCEPT ![r] = "done"]
    /\ UNCHANGED <<otherVars, playlistId, status, calls, responses, error, pending,
                   sourcePlaylist, sourceTracks, targetPlaylistId, loopIdx,
                   matched, unmatched, addResult, result, targetPlaylists>>

\* Variant: the catch sends the error event and leaves the stream open.
RouteCatchNoClose(r) ==
    /\ pc[r] = "threw"
    /\ stream' = [stream EXCEPT ![r] = Append(@, ErrorEvent(error[r]))]
    /\ pc' = [pc EXCEPT ![r] = "done"]
    /\ UNCHANGED <<otherVars, playlistId, status, closed, calls, responses,
                   error, pending, sourcePlaylist, sourceTracks,
                   targetPlaylistId, loopIdx, matched, unmatched, addResult,
                   result, targetPlaylists>>

\* The route's catch: error event with the message, then close.
RouteCatch(r) ==
    /\ pc[r] = "threw"
    /\ stream' = [stream EXCEPT ![r] = Append(@, ErrorEvent(error[r]))]
    /\ closed' = [closed EXCEPT ![r] = TRUE]
    /\ pc' = [pc EXCEPT ![r] = "done"]
    /\ UNCHANGED <<otherVars, playlistId, status, calls, responses, error, pending,
                   sourcePlaylist, sourceTracks, targetPlaylistId, loopIdx,
                   matched, unmatched, addResult, result, targetPlaylists>>

\* ------------------------------------------------------------------ adapters

\* A track as an adapter sees it: its id and whether it carries an ISRC.
AdapterTracks == [id : TargetIds, hasIsrc : BOOLEAN]

RECURSIVE SeqsUpTo(_, _)
SeqsUpTo(S, n) ==
    IF n = 0 THEN {<<>>}
    ELSE LET shorter == SeqsUpTo(S, n - 1)
         IN  shorter \cup {Append(q, x) : q \in {w \in shorter : Len(w) = n - 1}, x \in S}

\* What the platform answers to the two queries of one searchTrack call:
\* -1 the fetch throws, 0 no item (or a non-success response), else the id of
\* the first item.
QueryOutcomes == {-1, 0} \cup TargetIds
SearchEnvs == [isrc : QueryOutcomes, text : QueryOutcomes]

Request(kind, ids) == [kind |-> kind, ids |-> ids]

TextSearch(t, env, before) ==
    LET reqs == Append(before, Request("text-search", <<t.id>>))
    IN  IF env.text = -1 THEN [kind |-> "raise", id |-> 0, requests |-> reqs]
        ELSE IF env.text > 0 THEN [kind |-> "hit", id |-> env.text, requests |-> reqs]
        ELSE [kind |-> "miss", id |-> 0, requests |-> reqs]

IsrcThenTextSearch(t, env) ==
    LET isrcReq == <<Request("isrc-search", <<t.id>>)>>
    IN  IF ~t.hasIsrc THEN TextSearch(t, env, <<>>)
        ELSE IF env.isrc = -1 THEN [kind |-> "raise", id |-> 0, requests |-> isrcReq]
        ELSE IF env.isrc > 0 THEN [kind |-> "hit", id |-> env.isrc, requests |-> isrcReq]
        ELSE TextSearch(t, env, isrcReq)

SpotifySearchTrack(t, env) == IsrcThenTextSearch(t, env)
AppleSearchTrack(t, env) == IsrcThenTextSearch(t, env)
YouTubeSearchTrack(t, env) == TextSearch(t, env, <<>>)
KKBoxSearchTrack(t, env) == TextSearch(t, env, <<>>)

searchTrack(p, t, env) ==
    CASE p = "spotify" -> SpotifySearchTrack(t, env)
      [] p = "apple-music" -> AppleSearchTrack(t, env)
      [] p = "youtube-music" -> YouTubeSearchTrack(t, env)
      [] p = "kkbox" -> KKBoxSearchTrack(t, env)

\* Spotify adds in batches of this many uris.
BatchSize == 100

AddIdle ==
    [pc |-> "idle", provider |-> "", tracks |-> <<>>, pos |-> 0, uris |-> <<>>,
     added |-> 0, failed |-> 0, offset |-> 0, requests |-> <<>>]

Returned(a) == [a EXCEPT !.pc = "returned"]
Rejects(a) == [a EXCEPT !.pc = "rejected"]

SendAdd(a, ids) ==
    [a EXCEPT !.pc = "adding", !.requests = Append(@, Request("add", ids))]

ValidUris(uris) == SelectSeq(uris, LAMBDA u : u # 0)

\* Spotify's batch loop at offset i: the next batch request, or the return.
SpotifyBatch(a) ==
    LET valid == ValidUris(a.uris)
        last == IF a.offset + BatchSize < Len(valid)
                THEN a.offset + BatchSize ELSE Len(valid)
    IN  IF a.offset < Len(valid)
        THEN SendAdd(a, SubSeq(valid, a.offset + 1, last))
        ELSE Returned(a)

\* After the resolve phase: what each adapter does with what it resolved.
SpotifyAfterResolve(a) ==
    SpotifyBatch([a EXCEPT !.failed = Len(a.uris) - Len(ValidUris(a.uris)),
                           !.offset = 0])

YouTubeAfterResolve(a) == Returned(a)

\* Variant: the add request is sent whatever the number of resolved tracks.
AppleAfterResolveUnguarded(a) == SendAdd(a, a.uris)

AppleAfterResolve(a) ==
    IF Len(a.uris) > 0 THEN SendAdd(a, a.uris) ELSE Returned(a)

KKBoxAfterResolve(a) ==
    IF Len(a.uris) > 0 THEN SendAdd(a, a.uris) ELSE Returned(a)

AfterResolve(a) ==
    CASE a.provider = "spotify" -> SpotifyAfterResolve(a)
      [] a.provider = "youtube-music" -> YouTubeAfterResolve(a)
      [] a.provider = "apple-music" -> AppleAfterResolve(a)
      [] a.provider = "kkbox" -> KKBoxAfterResolve(a)

\* The top of the per-track loop: the next searchTrack, or past the last track.
ResolveLoop(a) ==
    IF a.pos < Len(a.tracks) THEN [a EXCEPT !.pc = "searching"]
    ELSE AfterResolve(a)

\* One searchTrack of the resolve phase has resolved with s.  Spotify starts
\* all its searches at once (Promise.all) and collects the answers by index:
\* the answers are taken here in index order, which is the order of uris.
AfterSearch(a, s) ==
    LET a1 == [a EXCEPT !.requests = @ \o s.requests, !.pos = @ + 1]
    IN  IF s.kind = "raise" THEN Rejects([a EXCEPT !.requests = @ \o s.requests])
        ELSE IF a.provider = "spotify"
             THEN ResolveLoop([a1 EXCEPT !.uris = Append(@, s.id)])
        ELSE IF s.kind = "miss"
             THEN ResolveLoop([a1 EXCEPT !.failed = @ + 1])
        ELSE IF a.provider = "youtube-music"
             THEN SendAdd([a EXCEPT !.requests = @ \o s.requests], <<s.id>>)
        ELSE ResolveLoop([a1 EXCEPT !.uris = Append(@, s.id)])

\* Variant: a rejected Spotify batch counts as one failure, whatever its size.
AfterAddRejectedBatchCountsOne(a, out) ==
    LET sent == Len(a.requests[Len(a.requests)].ids)
    IN  IF out = "throw" THEN Rejects(a)
        ELSE IF a.provider = "spotify"
             THEN SpotifyBatch(
                    IF out = "ok"
                    THEN [a EXCEPT !.added = @ + sent, !.offset = @ + BatchSize]
                    ELSE [a EXCEPT !.failed = @ + 1, !.offset = @ + BatchSize])
        ELSE IF a.provider = "youtube-music"
             THEN ResolveLoop(
                    IF out = "ok"
                    THEN [a EXCEPT !.added = @ + 1, !.pos = @ + 1]
                    ELSE [a EXCEPT !.failed = @ + 1, !.pos = @ + 1])
        ELSE Returned(
                    IF out = "ok"
                    THEN [a EXCEPT !.added = Len(a.uris)]
                    ELSE [a EXCEPT !.failed = @ + Len(a.uris)])

\* An add request has been answered: ok, notok (non-success status) or throw.
AfterAdd(a, out) ==
    LET sent == Len(a.requests[Len(a.requests)].ids)
    IN  IF out = "throw" THEN Rejects(a)
        ELSE IF a.provider = "spotify"
             THEN SpotifyBatch(
                    IF out = "ok"
                    THEN [a EXCEPT !.added = @ + sent, !.offset = @ + BatchSize]
                    ELSE [a EXCEPT !.failed = @ + sent, !.offset = @ + BatchSize])
        ELSE IF a.provider = "youtube-music"
             THEN ResolveLoop(
                    IF out = "ok"
                    THEN [a EXCEPT !.added = @ + 1, !.pos = @ + 1]
                    ELSE [a EXCEPT !.failed = @ + 1, !.pos = @ + 1])
        ELSE Returned(
                    IF out = "ok"
                    THEN [a EXCEPT !.added = Len(a.uris)]
                    ELSE [a EXCEPT !.failed = @ + Len(a.uris)])

\* provider.addTracks(token, playlistId, tracks) is called.
AddTracksStart ==
    /\ add.pc = "idle"
    /\ \E p \in {ProviderIds[k] : k \in 1..Len(ProviderIds)},
          tracks \in SeqsUpTo(AdapterTracks, MaxAddTracks) :
          add' = ResolveLoop([AddIdle EXCEPT !.provider = p, !.tracks = tracks])
    /\ UNCHANGED addFrame

AddTracksSearchResolves ==
    /\ add.pc = "searching"
    /\ \E env \in SearchEnvs :
          add' = AfterSearch(add, searchTrack(add.provider, add.tracks[add.pos + 1], env))
    /\ UNCHANGED addFrame

AddTracksRequestResolves ==
    /\ add.pc = "adding"
    /\ \E out \in {"ok", "notok", "throw"} : add' = AfterAdd(add, out)
    /\ UNCHANGED addFrame

\* A track list one longer than a Spotify batch: the same track throughout.
LongTrackList == [k \in 1..(BatchSize + 1) |-> [id |-> 11, hasIsrc |-> FALSE]]

\* The platform's answers to the searches of the long list: the tracks at the
\* positions in missed are not found, the others are found under their id.
LongSearchEnv(t, isMissed) == [isrc |-> 0, text |-> IF isMissed THEN 0 ELSE t.id]

\* Promise.all over the searches: the await resumes once, with every answer.
RECURSIVE AllSearchesResolved(_, _)
AllSearchesResolved(a, missed) ==
    IF a.pc # "searching" THEN a
    ELSE LET t == a.tracks[a.pos + 1]
             s == searchTrack(a.provider, t, LongSearchEnv(t, (a.pos + 1) \in missed))
         IN  AllSearchesResolved(AfterSearch(a, s), missed)

\* Spotify's addTracks is called with the long list.
AddTracksStartLong ==
    /\ add.pc = "idle"
    /\ add' = [AddIdle EXCEPT !.provider = "spotify", !.tracks = LongTrackList,
                              !.pc = "searchingAll"]
    /\ UNCHANGED addFrame

AddTracksAllSearchesResolve ==
    /\ add.pc = "searchingAll"
    /\ \E missed \in SUBSET {1, BatchSize + 1} :
          add' = AllSearchesResolved([add EXCEPT !.pc = "searching"], missed)
    /\ UNCHANGED addFrame

\* No searchTrack call has been made.
SearchIdle == [pc |-> "idle"]

\* provider.searchTrack(token, track) is called on adapter p and runs to its
\* end against the platform's answers env.
SearchTrackCall ==
    /\ search.pc = "idle"
    /\ \E p \in {ProviderIds[k] : k \in 1..Len(ProviderIds)},
          t \in AdapterTracks, env \in SearchEnvs :
          search' = [pc |-> "done", provider |-> p, track |-> t, env |-> env,
                     outcome |-> searchTrack(p, t, env)]
    /\ UNCHANGED searchFrame

\* What the platform's token endpoint does with the exchange request: the
\* fetch throws, or it answers with a success or a non-success status and a
\* body that parses as JSON or does not.
ExchangeAnswers == [fetch : {"throws", "ok", "rejected"}, json : BOOLEAN]

Raised(reqs) == [kind |-> "raise", token |-> <<>>, requests |-> reqs]

\* TokenData built from the parsed body: access_token is there on success;
\* the error body of a rejected exchange has none (accessToken undefined).
TokenData(accessToken, reqs) ==
    [kind |-> "token", token |-> accessToken, requests |-> reqs]

\* The exchange without a check of response.ok: fetch, response.json(), return.
ExchangeUnchecked(code, x) ==
    LET reqs == <<Request("token", <<code>>)>>
    IN  IF x.fetch = "throws" \/ ~x.json THEN Raised(reqs)
        ELSE TokenData(IF x.fetch = "ok" THEN <<"tok">> ELSE <<>>, reqs)

\* The exchange with if (!response.ok) throw before the body is read.
ExchangeChecked(code, x) ==
    LET reqs == <<Request("token", <<code>>)>>
    IN  IF x.fetch = "throws" \/ x.fetch = "rejected" \/ ~x.json THEN Raised(reqs)
        ELSE TokenData(<<"tok">>, reqs)

SpotifyHandleCallback(code, x) == ExchangeUnchecked(code, x)
YouTubeHandleCallback(code, x) == ExchangeUnchecked(code, x)
KKBoxHandleCallback(code, x) == ExchangeChecked(code, x)
\* No exchange: the code is the Music User Token.
AppleHandleCallback(code, x) == TokenData(<<code>>, <<>>)

handleCallback(p, code, x) ==
    CASE p = "spotify" -> SpotifyHandleCallback(code, x)
      [] p = "youtube-music" -> YouTubeHandleCallback(code, x)
      [] p = "apple-music" -> AppleHandleCallback(code, x)
      [] p = "kkbox" -> KKBoxHandleCallback(code, x)

AuthIdle == [pc |-> "idle"]

\* provider.handleCallback(code) is called on adapter p and runs to its end.
HandleCallbackCall ==
    /\ auth.pc = "idle"
    /\ \E p \in {ProviderIds[k] : k \in 1..Len(ProviderIds)}, x \in ExchangeAnswers :
          auth' = [pc |-> "done", provider |-> p, answer |-> x,
                   outcome |-> handleCallback(p, "code", x)]
    /\ UNCHANGED authFrame

\* ------------------------------------------------------------------ pagination

\* The items of a result page: a track id, or 0 for a Spotify item whose
\* track field is null.
PageItems(p) == IF p = "spotify" THEN {0, 1, 2} ELSE {1, 2}

\* The chains of pages a platform may serve: every page but the last carries
\* a cursor to the next one.
Chains(p) == SeqsUpTo(SeqsUpTo(PageItems(p), MaxPageItems), MaxPages) \ {<<>>}

\* The tracks an adapter builds from the items of one page: Spotify filters
\* out the items without a track, the others map every item.
PageTracks(p, page) ==
    IF p = "spotify" THEN SelectSeq(page, LAMBDA x : x # 0) ELSE page

ReadIdle == [pc |-> "idle"]

\* Variant: the tracks of a page replace the tracks collected so far.
AfterPageKeepingLast(f, page) ==
    LET f1 == [f EXCEPT !.tracks = PageTracks(f.provider, page)]
    IN  IF f.cursor < Len(f.chain)
        THEN [f1 EXCEPT !.pc = "page", !.cursor = @ + 1,
                        !.requests = Append(@, Request("page", <<f.cursor + 1>>))]
        ELSE [f1 EXCEPT !.pc = "returned"]

\* A page has been read: push its tracks, then follow the next cursor or,
\* when the page carries none, return.
AfterPage(f, page) ==
    LET f1 == [f EXCEPT !.tracks = @ \o PageTracks(f.provider, page)]
    IN  IF f.cursor < Len(f.chain)
        THEN [f1 EXCEPT !.pc = "page", !.cursor = @ + 1,
                        !.requests = Append(@, Request("page", <<f.cursor + 1>>))]
        ELSE [f1 EXCEPT !.pc = "returned"]

\* provider.getPlaylistTracks(token, playlistId) is called: the first page is
\* requested.
GetTracksStart ==
    /\ listing.pc = "idle"
    /\ \E p \in {ProviderIds[k] : k \in 1..Len(ProviderIds)} :
          \E chain \in Chains(p) :
             listing' = [pc |-> "page", provider |-> p, chain |-> chain, cursor |-> 1,
                      tracks |-> <<>>, requests |-> <<Request("page", <<1>>)>>]
    /\ UNCHANGED readFrame

\* The page request is answered.  A thrown fetch or a non-success response
\* rejects the call (Apple Music and KKBox throw on !response.ok; Spotify and
\* YouTube Music read data.items off the error body, which throws).  YouTube
\* Music then looks up the videos of the page before building its tracks.
GetTracksPageResolves ==
    /\ listing.pc = "page"
    /\ \E out \in {"ok", "notok", "throw"} :
          listing' = IF out # "ok" THEN [listing EXCEPT !.pc = "rejected"]
                  ELSE IF listing.provider = "youtube-music"
                  THEN [listing EXCEPT !.pc = "videos",
                           !.requests = Append(@, Request("videos", listing.chain[listing.cursor]))]
                  ELSE AfterPage(listing, listing.chain[listing.cursor])
    /\ UNCHANGED readFrame

\* YouTube Music's videos lookup is answered: a non-success response leaves
\* the durations at 0 and the tracks are built all the same.
GetTracksVideosResolve ==
    /\ listing.pc = "videos"
    /\ \E out \in {"ok", "notok", "throw"} :
          listing' = IF out = "throw" THEN [listing EXCEPT !.pc = "rejected"]
                  ELSE AfterPage(listing, listing.chain[listing.cursor])
    /\ UNCHANGED readFrame

\* ------------------------------------------------------------------ client

\* The response body as text.  One enqueue of the route writes
\* "data: " + JSON.stringify(event) + "\n\n": the prefix, the JSON text (in
\* two parts, so that a chunk may end inside it) and two newlines.
Prefix == [kind |-> "prefix", ev |-> <<>>, part |-> 0]
Newline == [kind |-> "nl", ev |-> <<>>, part |-> 0]
JsonPart(e, n) == [kind |-> "json", ev |-> <<e>>, part |-> n]

Serialise(e) == <<Prefix, JsonPart(e, 1), JsonPart(e, 2), Newline, Newline>>

RECURSIVE Wire(_)
Wire(events) ==
    IF events = <<>> THEN <<>> ELSE Serialise(Head(events)) \o Wire(Tail(events))

\* JSON.parse: the value when the text is one whole JSON text, else <<>>
\* (a SyntaxError).
JSONParse(text) ==
    IF /\ Len(text) = 2
       /\ text[1].kind = "json" /\ text[1].part = 1
       /\ text[2] = [text[1] EXCEPT !.part = 2]
    THEN text[1].ev ELSE <<>>

\* chunk.split('\n'): the pieces between newlines, empty ones included.
RECURSIVE SplitLines(_, _)
SplitLines(text, line) ==
    IF text = <<>> THEN <<line>>
    ELSE IF Head(text).kind = "nl" THEN <<line>> \o SplitLines(Tail(text), <<>>)
    ELSE SplitLines(Tail(text), Append(line, Head(text)))

\* The body cut at the positions in cuts: the chunks read() delivers.
RECURSIVE ChunksAt(_, _)
ChunksAt(text, cuts) ==
    IF cuts = {} THEN <<text>>
    ELSE LET c == Min(cuts)
         IN  <<SubSeq(text, 1, c)>>
                \o ChunksAt(SubSeq(text, c + 1, Len(text)), {x - c : x \in cuts \ {c}})

\* The event sequences the route enqueues before it closes the stream: a
\* failure at step 1, a failure in the matching loop, and the success of an
\* empty playlist.
ServerStreams ==
    { <<FetchingEvent, ErrorEvent("not found")>>,
      <<FetchingEvent, ReadingEvent, CreatingEvent(1), MatchingEvent(0, 1),
        ErrorEvent("adapter")>>,
      <<FetchingEvent, ReadingEvent, CreatingEvent(0), TransferringEvent(<<>>),
        CompleteEvent(<<>>, 0),
        FinalEvent(TransferResult(ReadInto(Playlist("p1", 0), <<>>), 1, <<>>, <<>>, 0))>> }

\* The ways the transport may cut a body: at any of the boundaries between
\* events, and at up to MaxMidCuts other places.
CutSets(text) ==
    LET n == Len(text)
        boundaries == {k \in 1..(n - 1) : k % Len(Serialise(FetchingEvent)) = 0}
        others == (1..(n - 1)) \ boundaries
    IN  {b \cup x : b \in SUBSET boundaries,
                    x \in {y \in SUBSET others : Cardinality(y) <= MaxMidCuts}}

ClientIdle ==
    [pc |-> "idle", sent |-> <<>>, chunks |-> <<>>, progress |-> <<>>,
     result |-> <<>>, isTransferring |-> FALSE, alerts |-> <<>>,
     applied |-> <<>>, logged |-> <<>>]

\* The outer catch and the finally block: alert, setIsTransferring(false).
ClientFails(c, msg) ==
    [c EXCEPT !.pc = "done", !.alerts = Append(@, <<"Transfer failed", msg>>),
              !.isTransferring = FALSE]

\* The body of the for loop over the lines of a chunk.  The inner try wraps
\* JSON.parse and the dispatch on data.type alike: the Error thrown for an
\* error event is caught by the inner catch and logged.
HandleLine(c, line) ==
    IF line = <<>> \/ Head(line).kind # "prefix" THEN c
    ELSE LET parsed == JSONParse(Tail(line))
         IN  IF parsed = <<>> THEN [c EXCEPT !.logged = Append(@, "SyntaxError")]
             ELSE IF parsed[1].type = "complete"
                  THEN [c EXCEPT !.result = parsed[1].result, !.progress = <<>>,
                                 !.applied = Append(@, parsed[1])]
             ELSE IF parsed[1].type = "error"
                  THEN [c EXCEPT !.logged = Append(@, parsed[1].error),
                                 !.applied = Append(@, parsed[1])]
             ELSE [c EXCEPT !.progress = parsed, !.applied = Append(@, parsed[1])]

RECURSIVE HandleLines(_, _)
HandleLines(c, lines) ==
    IF lines = <<>> THEN c ELSE HandleLines(HandleLine(c, Head(lines)), Tail(lines))

\* startTransfer up to its first await: setIsTransferring(true),
\* setResult(null), fetch.
ClientStartTransfer ==
    /\ client.pc = "idle"
    /\ client' = [client EXCEPT !.pc = "fetching", !.isTransferring = TRUE,
                                !.result = <<>>]
    /\ UNCHANGED clientFrame

\* The fetch settles: it throws, or the response is not ok, or the response
\* carries a body, which the transport will deliver in some chunks.
ClientFetchResolves ==
    /\ client.pc = "fetching"
    /\ \/ \E msg \in {"Failed to fetch", "Transfer failed"} :
             client' = ClientFails(client, msg)
       \/ \E sent \in ServerStreams :
             \E cuts \in CutSets(Wire(sent)) :
                client' = [client EXCEPT !.pc = "reading", !.sent = sent,
                                         !.chunks = ChunksAt(Wire(sent), cuts)]
    /\ UNCHANGED clientFrame

\* reader.read() resolves: with the next chunk, whose lines are handled, or
\* with done, which leaves the loop for the finally block.
ClientReadResolves ==
    /\ client.pc = "reading"
    /\ client' =
          IF client.chunks = <<>>
          THEN [client EXCEPT !.pc = "done", !.isTransferring = FALSE]
          ELSE HandleLines([client EXCEPT !.chunks = Tail(@)],
                           SplitLines(Head(client.chunks), <<>>))
    /\ UNCHANGED clientFrame

\* ------------------------------------------------------------------ routes

\* POST /api/transfer on one request slot, the body kept for inspection.
HttpTransfer ==
    /\ pc["r1"] = "idle"
    /\ \E req \in Requests \cup {MalformedRequest} :
          /\ PostWith("r1", req)
          /\ posted' = <<req>>

\* The [provider] segment of the playlists route's path.
PathProviders == ProviderNames \ {""}

\* The authorization header: absent (scheme ""), or "<scheme> <token>".
AuthHeaders ==
    {[scheme |-> "", token |-> ""], [scheme |-> "Basic", token |-> "tok"],
     [scheme |-> "Bearer", token |-> "tok"], [scheme |-> "Bearer", token |-> ""]}

GetIdle == [pc |-> "idle"]

GetAnswer(name, h, code, issued) ==
    [pc |-> IF code = 0 THEN "getPlaylists" ELSE "done", provider |-> name,
     header |-> h, status |-> code, calls |-> issued]

\* GET /api/playlists/[provider] up to its await, or to its early answer.
PlaylistsGet ==
    /\ get.pc = "idle"
    /\ \E name \in PathProviders, h \in AuthHeaders :
          get' = IF getProvider(name) = <<>> THEN GetAnswer(name, h, 404, <<>>)
                 ELSE IF h.scheme # "Bearer" THEN GetAnswer(name, h, 401, <<>>)
                 ELSE GetAnswer(name, h, 0,
                                <<[op |-> "getPlaylists", token |-> h.token]>>)
    /\ UNCHANGED getFrame

\* provider.getPlaylists resolves: the listing is answered, or the catch runs.
PlaylistsResolve ==
    /\ get.pc = "getPlaylists"
    /\ \E resp \in GetPlaylistsResponses :
          get' = [get EXCEPT !.pc = "done",
                             !.status = IF resp.kind = "raise" THEN 500 ELSE 200]
    /\ UNCHANGED getFrame

\* ------------------------------------------------------------------ spec

Init ==
    /\ pc = [r \in Runs |-> "idle"]
    /\ playlistId = [r \in Runs |-> ""]
    /\ status = [r \in Runs |-> 0]
    /\ stream = [r \in Runs |-> <<>>]
    /\ closed = [r \in Runs |-> FALSE]
    /\ calls = [r \in Runs |-> <<>>]
    /\ responses = [r \in Runs |-> <<>>]
    /\ error = [r \in Runs |-> ""]
    /\ pending = [r \in Runs |-> <<>>]
    /\ sourcePlaylist = [r \in Runs |-> <<>>]
    /\ sourceTracks = [r \in Runs |-> <<>>]
    /\ targetPlaylistId = [r \in Runs |-> 0]
    /\ loopIdx = [r \in Runs |-> 0]
    /\ matched = [r \in Runs |-> <<>>]
    /\ unmatched = [r \in Runs |-> <<>>]
    /\ addResult = [r \in Runs |-> <<>>]
    /\ result = [r \in Runs |-> <<>>]
    /\ targetPlaylists = <<>>
    /\ add = AddIdle
    /\ search = SearchIdle
    /\ auth = AuthIdle
    /\ posted = <<>>
    /\ get = GetIdle
    /\ registry = Registry
    /\ listing = ReadIdle
    /\ client = ClientIdle

Next ==
    \E r \in Runs :
        \/ Post(r)
        \/ ResolveGetPlaylists(r)
        \/ ResolveGetPlaylistTracks(r, MaxTracks)
        \/ ResolveCreatePlaylist(r)
        \/ ResolveSearchTrack(r)
        \/ ResolveAddTracks(r)
        \/ RouteFinish(r)
        \/ RouteCatch(r)

Spec == Init /\ [][Next]_vars

\* One transfer request, served alone.
NextOne ==
    \/ Post("r1")
    \/ ResolveGetPlaylists("r1")
    \/ ResolveGetPlaylistTracks("r1", MaxTracks)
    \/ ResolveCreatePlaylist("r1")
    \/ ResolveSearchTrack("r1")
    \/ ResolveAddTracks("r1")
    \/ RouteFinish("r1")
    \/ RouteCatch("r1")

SpecOne == Init /\ [][NextOne]_vars

\* Every adapter call eventually resolves, and the event loop runs the
\* continuation of every settled promise.  No request need ever arrive.
FairOne ==
    /\ WF_vars(ResolveGetPlaylists("r1"))
    /\ WF_vars(ResolveGetPlaylistTracks("r1", MaxTracks))
    /\ WF_vars(ResolveCreatePlaylist("r1"))
    /\ WF_vars(ResolveSearchTrack("r1"))
    /\ WF_vars(ResolveAddTracks("r1"))
    /\ WF_vars(RouteFinish("r1"))
    /\ WF_vars(RouteCatch("r1"))

SpecOneFair == Init /\ [][NextOne]_vars /\ FairOne

\* One addTracks call on one adapter, from call to return.
NextAdd ==
    \/ AddTracksStart
    \/ AddTracksSearchResolves
    \/ AddTracksRequestResolves
    \/ AddTracksStartLong
    \/ AddTracksAllSearchesResolve

SpecAdd == Init /\ [][NextAdd]_vars

\* One call of an adapter method that runs to its end in one go.
NextAdapter ==
    \/ SearchTrackCall
    \/ HandleCallbackCall

SpecAdapter == Init /\ [][NextAdapter]_vars

\* One getPlaylistTracks call on one adapter, from call to return.
NextRead ==
    \/ GetTracksStart
    \/ GetTracksPageResolves
    \/ GetTracksVideosResolve

SpecRead == Init /\ [][NextRead]_vars

\* One startTransfer of the browser client, from the click to its end.
NextClient ==
    \/ ClientStartTransfer
    \/ ClientFetchResolves
    \/ ClientReadResolves

SpecClient == Init /\ [][NextClient]_vars

\* The two routes' handlers, each on one request.
NextHttp ==
    \/ HttpTransfer
    \/ PlaylistsGet
    \/ PlaylistsResolve

SpecHttp == Init /\ [][NextHttp]_vars

\* ------------------------------------------------------------------ observations

IsPrefix(a, b) == Len(a) <= Len(b) /\ a = SubSeq(b, 1, Len(a))
IsStrictPrefix(a, b) == Len(a) < Len(b) /\ IsPrefix(a, b)

ProgressOf(r) == SelectSeq(stream[r], LAMBDA e : e.type = "progress")
TerminalsOf(r) == SelectSeq(stream[r], LAMBDA e : e.type # "progress")
Phases(r) == [k \in 1..Len(ProgressOf(r)) |-> ProgressOf(r)[k].phase]
HasPhase(r, ph) == \E k \in 1..Len(stream[r]) :
                      stream[r][k].type = "progress" /\ stream[r][k].phase = ph
HasTerminal(r, ty) == \E k \in 1..Len(stream[r]) : stream[r][k].type = ty

ExpectedPhases(n) ==
    <<"fetching", "reading", "creating">> \o [k \in 1..n |-> "matching"]
        \o <<"transferring", "complete">>

CallsOf(r, op) == SelectSeq(calls[r], LAMBDA c : c.op = op)
PendingOf(r, op) == SelectSeq(pending[r], LAMBDA c : c.op = op)

\* The k-th call the engine issued has resolved / has raised / has returned.
Answered(r, k) == k <= Len(responses[r])
RaisedAt(r, k) == Answered(r, k) /\ responses[r][k].kind = "raise"
ReturnedAt(r, k) == Answered(r, k) /\ responses[r][k].kind # "raise"
OpRaised(r, op) == \E k \in 1..Len(calls[r]) : calls[r][k].op = op /\ RaisedAt(r, k)
OpReturned(r, op) == \E k \in 1..Len(calls[r]) : calls[r][k].op = op /\ ReturnedAt(r, k)

\* The searchTrack answers so far that were not raised, and the hits among
\* them, in the order they resolved.
SearchAnswers(r) ==
    SelectSeq([k \in 1..Len(responses[r]) |->
                  [op |-> calls[r][k].op, kind |-> responses[r][k].kind,
                   value |-> responses[r][k].value]],
              LAMBDA a : a.op = "searchTrack" /\ a.kind # "raise")
Hits(r) ==
    LET h == SelectSeq(SearchAnswers(r), LAMBDA a : a.kind = "hit")
    IN  [k \in 1..Len(h) |-> h[k].value[1]]

Succeeded(r) == result[r] # <<>>
Failed(r) == error[r] # ""
TracksRead(r) == OpReturned(r, "getPlaylistTracks")

\* ------------------------------------------------------------------ claims

\* C1: the phases of the progress events emitted by a run are always a prefix
\* of fetching, reading, creating, matching x N, transferring, complete (N the
\* number of tracks read); a successful run has emitted exactly that sequence
\* and a failed run a strict prefix of it.
C1_PhaseOrder ==
    \A r \in Runs :
        LET ph == Phases(r)
            \* N; until the tracks are read only the first phases, the same
            \* for every N, can have been emitted
            expected == ExpectedPhases(Len(sourceTracks[r]))
        IN  /\ IsPrefix(ph, expected)
            /\ ~TracksRead(r) => Len(ph) <= 2
            /\ Succeeded(r) => ph = expected
            /\ Failed(r) => IsStrictPrefix(ph, expected)

C1_Witness ==
    \E r, q \in Runs :
        /\ pc[r] = "done" /\ Succeeded(r) /\ Len(sourceTracks[r]) >= 2
        /\ pc[q] = "done" /\ Failed(q) /\ HasPhase(q, "matching")

\* C2: a returned TransferResult has matched.length + unmatched.length =
\* totalTracks = the number of tracks getPlaylistTracks returned, and while
\* matching the two buckets together hold one track per searchTrack answered.
C2_Buckets ==
    \A r \in Runs :
        /\ Len(matched[r]) + Len(unmatched[r]) = Len(SearchAnswers(r))
        /\ Succeeded(r) =>
              /\ Len(result[r][1].matched) + Len(result[r][1].unmatched)
                    = result[r][1].totalTracks
              /\ \E k \in 1..Len(calls[r]) :
                    /\ calls[r][k].op = "getPlaylistTracks"
                    /\ ReturnedAt(r, k)
                    /\ result[r][1].totalTracks = Len(responses[r][k].value)

C2_Witness ==
    \E r \in Runs :
        /\ Succeeded(r)
        /\ Len(result[r][1].matched) >= 1
        /\ Len(result[r][1].unmatched) >= 1

\* C3: when the listing getPlaylists returned has no playlist with the
\* requested id, the run fails with the not-found error, emits no creating,
\* matching, transferring or complete event, and calls nothing but getPlaylists
\* (no createPlaylist, no addTracks: the target platform is untouched by it).
ListingLacksPlaylist(r) ==
    /\ ReturnedAt(r, 1)
    /\ \A k \in 1..Len(responses[r][1].value) :
          responses[r][1].value[k].id # playlistId[r]

C3_NotFound ==
    \A r \in Runs :
        ListingLacksPlaylist(r) =>
            /\ error[r] = "not found"
            /\ pc[r] \in {"threw", "done"}
            /\ ~Succeeded(r)
            /\ Phases(r) = <<"fetching">>
            /\ Len(calls[r]) = 1
            /\ targetPlaylistId[r] = 0
            /\ pc[r] = "done" => stream[r][Len(stream[r])] = ErrorEvent("not found")

C3_Witness ==
    \E r \in Runs :
        /\ ListingLacksPlaylist(r)
        /\ Len(responses[r][1].value) >= 1
        /\ pc[r] = "done"

\* C4: when the target adapter's createPlaylist raises, the run fails, the
\* stream ends with an error event, no matching event is emitted and neither
\* searchTrack nor addTracks is ever called.
C4_CreateFails ==
    \A r \in Runs :
        OpRaised(r, "createPlaylist") =>
            /\ Failed(r)
            /\ pc[r] \in {"threw", "done"}
            /\ ~Succeeded(r)
            /\ ~HasPhase(r, "matching")
            /\ CallsOf(r, "searchTrack") = <<>>
            /\ CallsOf(r, "addTracks") = <<>>
            /\ pc[r] = "done" =>
                  /\ stream[r][Len(stream[r])].type = "error"
                  /\ closed[r]

C4_Witness ==
    \E r \in Runs :
        /\ OpRaised(r, "createPlaylist")
        /\ pc[r] = "done"
        /\ Len(sourceTracks[r]) >= 1

\* C5: the engine has at most one searchTrack call in flight; its k-th
\* searchTrack call is for the k-th source track, it starts only when the
\* k-1 calls before it have resolved, and a successful run has made exactly
\* one call per source track.
C5_SequentialMatching ==
    \A r \in Runs :
        LET sc == CallsOf(r, "searchTrack")
        IN  /\ Len(PendingOf(r, "searchTrack")) <= 1
            /\ Len(pending[r]) <= 1
            /\ Len(sc) <= Len(sourceTracks[r])
            /\ \A k \in 1..Len(sc) : sc[k].tracks = <<sourceTracks[r][k]>>
            /\ Len(sc) <= Len(SearchAnswers(r)) + 1
            /\ Succeeded(r) => Len(sc) = Len(sourceTracks[r])

C5_Witness ==
    \E r \in Runs :
        /\ pc[r] = "searchTrack"
        /\ Len(CallsOf(r, "searchTrack")) >= 2
        /\ Len(PendingOf(r, "searchTrack")) = 1

\* C6: on the stream of a request that passed validation, every event before
\* the last is a progress event; a terminal event (complete or error) is on the
\* stream exactly when the stream is closed, it is then the last event and the
\* only terminal one; and a finished request has sent it, whether
\* transferPlaylist returned or failed.
C6_OneTerminal ==
    \A r \in Runs :
        /\ \A k \in 1..(Len(stream[r]) - 1) : stream[r][k].type = "progress"
        /\ Len(TerminalsOf(r)) <= 1
        /\ closed[r] <=> Len(TerminalsOf(r)) = 1
        /\ (pc[r] = "done" /\ status[r] = 200) =>
              /\ closed[r]
              /\ stream[r][Len(stream[r])].type \in {"complete", "error"}
              /\ stream[r][Len(stream[r])].type = "complete" <=> Succeeded(r)
              /\ stream[r][Len(stream[r])].type = "error" <=> Failed(r)

C6_Witness ==
    \E r, q \in Runs :
        /\ pc[r] = "done" /\ Succeeded(r)
        /\ stream[r][Len(stream[r])].type = "complete"
        /\ pc[q] = "done" /\ OpRaised(q, "searchTrack")
        /\ stream[q][Len(stream[q])].type = "error"

\* C7: when getPlaylists, getPlaylistTracks or createPlaylist raises, the run
\* returns no TransferResult and emits no complete progress event, and its
\* stream never carries a complete terminal event (a finished one carries the
\* error event); no stream carries both a complete and an error terminal
\* event, and no failed run has a result.
C7_NoPartialResult ==
    \A r \in Runs :
        /\ (\/ OpRaised(r, "getPlaylists")
            \/ OpRaised(r, "getPlaylistTracks")
            \/ OpRaised(r, "createPlaylist")) =>
              /\ result[r] = <<>>
              /\ ~HasPhase(r, "complete")
              /\ ~HasTerminal(r, "complete")
              /\ pc[r] = "done" => HasTerminal(r, "error")
        /\ ~(HasTerminal(r, "complete") /\ HasTerminal(r, "error"))
        /\ ~(Failed(r) /\ Succeeded(r))
        /\ \A k \in 1..Len(stream[r]) :
              stream[r][k].type = "error" => stream[r][k].result = <<>>

C7_Witness ==
    \E r, q \in Runs :
        /\ pc[r] = "done" /\ OpRaised(r, "getPlaylistTracks")
        /\ pc[q] = "done" /\ OpRaised(q, "getPlaylists")

\* C8: a playlist createPlaylist has created stays on the target platform
\* whatever happens later, and once a run has failed the call that raised is
\* the last call it issued: nothing is called to undo the creation.
C8_NoRollback ==
    \A r \in Runs :
        /\ targetPlaylistId[r] # 0 =>
              \E k \in 1..Len(targetPlaylists) :
                  targetPlaylists[k] = targetPlaylistId[r]
        /\ OpReturned(r, "createPlaylist") => targetPlaylistId[r] # 0
        /\ (Failed(r) /\ error[r] = "adapter") =>
              /\ Len(calls[r]) = Len(responses[r])
              /\ RaisedAt(r, Len(calls[r]))
              /\ pending[r] = <<>>

C8_Witness ==
    \E r, q \in Runs :
        /\ pc[r] = "done" /\ OpRaised(r, "searchTrack")
        /\ pc[q] = "done" /\ OpRaised(q, "addTracks")
        /\ Len(targetPlaylists) = 2

\* C9: a successful run has called addTracks exactly once, as its last call
\* and after every searchTrack resolved, with the id createPlaylist returned
\* and with all search hits in order (the matched list), also when there is
\* no hit; no run calls addTracks twice or before the matching loop is over.
C9_AddTracksOnce ==
    \A r \in Runs :
        LET adds == CallsOf(r, "addTracks")
        IN  /\ Len(adds) <= 1
            /\ Len(adds) = 1 =>
                  /\ calls[r][Len(calls[r])] = adds[1]
                  /\ Len(SearchAnswers(r)) = Len(sourceTracks[r])
                  /\ adds[1].tracks = Hits(r)
                  /\ adds[1].target = targetPlaylistId[r]
                  /\ \E k \in 1..Len(calls[r]) :
                        /\ calls[r][k].op = "createPlaylist"
                        /\ ReturnedAt(r, k)
                        /\ responses[r][k].value = <<adds[1].target>>
            /\ Succeeded(r) =>
                  /\ Len(adds) = 1
                  /\ adds[1].tracks = result[r][1].matched
                  /\ adds[1].target = result[r][1].targetPlaylistId

C9_Witness ==
    \E r, q \in Runs :
        /\ Succeeded(r) /\ Len(sourceTracks[r]) >= 1 /\ matched[r] = <<>>
        /\ Succeeded(q) /\ Len(matched[q]) >= 2
        /\ matched[q][1] # matched[q][2]

\* C10: addTracks called with an empty track list sends no request at all
\* (no search, no add) and returns {added: 0, failed: 0}, on each of the four
\* adapters: it is never left waiting for a request and never rejects.
C10_EmptyAdd ==
    (add.pc # "idle" /\ add.tracks = <<>>) =>
        /\ add.pc = "returned"
        /\ add.requests = <<>>
        /\ add.added = 0
        /\ add.failed = 0

C10_Witness ==
    /\ add.pc = "returned"
    /\ add.tracks = <<>>
    /\ add.provider = "apple-music"

\* C11: whenever an adapter's addTracks returns, the counts it returns add up
\* to the number of tracks it was given: added + failed = tracks.length, for
\* every adapter, misses and rejected add requests (Spotify's rejected batches
\* of up to 100 uris among them) included.
C11_CountsAddUp ==
    add.pc = "returned" => add.added + add.failed = Len(add.tracks)

\* Spotify returned after two batches, the full one rejected and one accepted.
C11_Witness ==
    /\ add.pc = "returned" /\ add.provider = "spotify"
    /\ Len(add.tracks) > BatchSize
    /\ add.failed >= BatchSize /\ add.added >= 1
    /\ \E k \in 1..Len(add.requests) :
          add.requests[k].kind = "add" /\ Len(add.requests[k].ids) = BatchSize

\* C12: for every registered adapter, when the source track carries an ISRC
\* and the target platform has both an ISRC-exact hit and a different text
\* hit, searchTrack returns the ISRC-exact hit.
C12_IsrcPreferred ==
    (/\ search.pc = "done"
     /\ search.track.hasIsrc
     /\ search.env.isrc > 0 /\ search.env.text > 0
     /\ search.env.isrc # search.env.text)
    => (search.outcome.kind = "hit" /\ search.outcome.id = search.env.isrc)

\* C13: a transfer is not idempotent.  The engine never looks for an existing
\* target playlist: every run that has read its tracks calls createPlaylist
\* exactly once, every createPlaylist that returns has created one more
\* playlist, and after two successful runs of the same request two distinct
\* target playlists exist.
C13_NotIdempotent ==
    /\ \A r \in Runs :
          /\ Len(CallsOf(r, "createPlaylist")) = (IF TracksRead(r) THEN 1 ELSE 0)
          /\ \A k \in 1..Len(calls[r]) :
                calls[r][k].side = "target"
                => calls[r][k].op \in {"createPlaylist", "searchTrack", "addTracks"}
    /\ Len(targetPlaylists) = Cardinality({r \in Runs : OpReturned(r, "createPlaylist")})
    /\ \A r, q \in Runs :
          (r # q /\ Succeeded(r) /\ Succeeded(q))
          => /\ Len(targetPlaylists) = 2
             /\ result[r][1].targetPlaylistId # result[q][1].targetPlaylistId

\* Two runs of the same request have both succeeded.
C13_Witness ==
    /\ \A r \in Runs : Succeeded(r) /\ pc[r] = "done"
    /\ playlistId["r1"] = playlistId["r2"]
    /\ responses["r1"][2] = responses["r2"][2]

\* C14: validation answers come before any adapter call.  A transfer request
\* that lacks one of the five fields or names an unregistered provider is
\* answered 400 with no adapter method called and no event stream opened;
\* the playlists route answers an unregistered provider with 404 and a
\* request without a bearer credential with 401, without calling getPlaylists.
C14_ValidationFirst ==
    LET registered == {"spotify", "youtube-music", "apple-music", "kkbox"}
    IN  /\ posted # <<>> /\ posted[1].json
           /\ (\/ "" \in {posted[1].sourceProvider, posted[1].targetProvider,
                           posted[1].sourceToken, posted[1].targetToken,
                           posted[1].playlistId}
               \/ posted[1].sourceProvider \notin registered
               \/ posted[1].targetProvider \notin registered)
           => /\ status["r1"] = 400 /\ pc["r1"] = "done"
              /\ calls["r1"] = <<>> /\ pending["r1"] = <<>>
              /\ stream["r1"] = <<>> /\ ~closed["r1"]
        /\ get.pc # "idle" /\ get.provider \notin registered
           => get.pc = "done" /\ get.status = 404 /\ get.calls = <<>>
        /\ get.pc # "idle" /\ get.provider \in registered
                           /\ get.header.scheme # "Bearer"
           => get.pc = "done" /\ get.status = 401 /\ get.calls = <<>>

\* A transfer request complete but for an unregistered target provider has
\* been answered, and so has a playlists request with a non-bearer credential.
C14_Witness ==
    /\ posted # <<>> /\ posted[1].json
    /\ posted[1].sourceProvider = "spotify" /\ posted[1].targetProvider = "tidal"
    /\ "" \notin {posted[1].sourceToken, posted[1].targetToken, posted[1].playlistId}
    /\ status["r1"] = 400
    /\ get.pc = "done" /\ get.provider = "kkbox" /\ get.header.scheme = "Basic"
    /\ get.status = 401

\* What one transferPlaylist invocation does when it runs alone against the
\* adapter answers resps, for the playlist pid: the progress events it emits
\* and the result it returns, as far as the answers reach.
RECURSIVE AloneFromLoop(_, _, _, _, _, _, _, _)
AloneFromLoop(resps, sp, tid, tracks, i, m, u, progress) ==
    LET n == Len(tracks)
        k == 4 + i
        stop(p) == [progress |-> p, result |-> <<>>]
    IN  IF i < n
        THEN LET p1 == Append(progress, MatchingEvent(i, n))
             IN  IF Len(resps) < k \/ Rejected(resps[k].kind) THEN stop(p1)
                 ELSE LET b == Bucket([kind |-> resps[k].kind, track |-> resps[k].value],
                                      tracks[i + 1], m, u)
                      IN  AloneFromLoop(resps, sp, tid, tracks, i + 1,
                                        b.matched, b.unmatched, p1)
        ELSE LET p1 == Append(progress, TransferringEvent(m))
             IN  IF Len(resps) < k \/ Rejected(resps[k].kind) THEN stop(p1)
                 ELSE [progress |-> Append(p1, CompleteEvent(m, n)),
                       result |-> <<TransferResult(sp, tid, m, u, n)>>]

Alone(resps, pid) ==
    LET stop(p) == [progress |-> p, result |-> <<>>]
        p1 == <<FetchingEvent>>
        found == Find(resps[1].value, pid)
        p2 == Append(p1, ReadingEvent)
        tracks == resps[2].value
        p3 == Append(p2, CreatingEvent(Len(tracks)))
    IN  IF Len(resps) < 1 \/ Rejected(resps[1].kind) THEN stop(p1)
        ELSE IF found = <<>> THEN stop(p1)
        ELSE IF Len(resps) < 2 \/ Rejected(resps[2].kind) THEN stop(p2)
        ELSE IF Len(resps) < 3 \/ Rejected(resps[3].kind) THEN stop(p3)
        ELSE AloneFromLoop(resps, ReadInto(found[1], tracks), resps[3].value[1],
                           tracks, 0, <<>>, <<>>, p3)

\* C15: concurrent transferPlaylist invocations do not interfere.  Whatever the
\* interleaving of two runs sharing the adapters, each run emits the progress
\* sequence and returns the TransferResult it would emit and return running
\* alone against the adapter answers it received.
C15_Independent ==
    \A r \in Runs :
        status[r] = 200
        => /\ ProgressOf(r) = Alone(responses[r], playlistId[r]).progress
           /\ result[r] = Alone(responses[r], playlistId[r]).result

\* Both runs are inside their matching loops at once, at different tracks,
\* one holding a hit and the other a miss.
C15_Witness ==
    /\ pc["r1"] = "searchTrack" /\ pc["r2"] = "searchTrack"
    /\ loopIdx["r1"] # loopIdx["r2"]
    /\ matched["r1"] # <<>> /\ unmatched["r2"] # <<>>
    /\ matched["r1"] # matched["r2"]

\* C16: the numeric fields of the progress events follow the phase table:
\* fetching and reading carry 0 and 0; creating 0 and N; the i-th matching
\* event i and N; transferring 0 and the number of matched tracks; complete
\* the number of matched tracks and N, N being the number of tracks read.
C16_ProgressNumbers ==
    \A r \in Runs :
        LET p == ProgressOf(r)
            n == Len(sourceTracks[r])
        IN  \A k \in 1..Len(p) :
              LET cur == p[k].current
                  tot == p[k].total
              IN  CASE p[k].phase \in {"fetching", "reading"} -> cur = 0 /\ tot = 0
                    [] p[k].phase = "creating" -> cur = 0 /\ tot = n
                    [] p[k].phase = "matching" -> cur = k - 3 /\ tot = n
                    [] p[k].phase = "transferring" -> cur = 0 /\ tot = Len(Hits(r))
                    [] p[k].phase = "complete" -> cur = Len(Hits(r)) /\ tot = n

\* A run has emitted every phase, with hits and misses among several tracks.
C16_Witness ==
    \E r \in Runs :
        /\ HasPhase(r, "complete")
        /\ Len(sourceTracks[r]) >= 2
        /\ Len(Hits(r)) >= 1 /\ Len(Hits(r)) < Len(sourceTracks[r])

\* C17: the reading phase overwrites the playlist's tracks and trackCount.  In
\* every TransferResult returned, sourcePlaylist.tracks is the sequence that
\* getPlaylistTracks returned and trackCount = tracks.length = totalTracks,
\* whatever trackCount getPlaylists advertised.
C17_ReadOverwrites ==
    \A r \in Runs :
        Succeeded(r)
        => LET res == result[r][1]
               read == responses[r][2].value
           IN  /\ calls[r][2].op = "getPlaylistTracks"
               /\ res.sourcePlaylist.tracks = read
               /\ res.sourcePlaylist.trackCount = Len(read)
               /\ res.totalTracks = Len(read)

\* A result has been returned for a playlist whose listing advertised a
\* trackCount different from the number of tracks read.
C17_Witness ==
    \E r \in Runs :
        /\ Succeeded(r)
        /\ Len(responses[r][2].value) >= 1
        /\ Find(responses[r][1].value, playlistId[r])[1].trackCount
              # Len(responses[r][2].value)

\* The answers a run received, the value addTracks returned blanked out.
WithoutAddCounts(resps) ==
    [k \in 1..Len(resps) |->
        IF k = Len(resps) THEN [kind |-> resps[k].kind, value |-> <<>>] ELSE resps[k]]

\* C18: the TransferResult does not depend on what addTracks returned.  The
\* result is fixed by the adapter answers before addTracks: it has no field
\* for the added or failed counts, its matched list is every hit even when
\* addTracks added fewer, and two runs that differ only in the value addTracks
\* returned (and in the id of the playlist created) return the same result.
C18_ResultIgnoresAddCounts ==
    /\ \A r \in Runs :
          Succeeded(r)
          => /\ calls[r][Len(responses[r])].op = "addTracks"
             /\ result[r] = Alone(WithoutAddCounts(responses[r]), playlistId[r]).result
             /\ DOMAIN result[r][1] = {"sourcePlaylist", "targetPlaylistId",
                                       "matched", "unmatched", "totalTracks"}
             /\ result[r][1].matched = Hits(r)
    /\ \A r, q \in Runs :
          (/\ Succeeded(r) /\ Succeeded(q)
           /\ Len(responses[r]) = Len(responses[q])
           /\ \A k \in 1..(Len(responses[r]) - 1) : k # 3 => responses[r][k] = responses[q][k])
          => [result[r][1] EXCEPT !.targetPlaylistId = 0]
               = [result[q][1] EXCEPT !.targetPlaylistId = 0]

\* Two runs received the same answers up to addTracks, which added every
\* matched track in one and fewer in the other; both have returned.
C18_Witness ==
    /\ Succeeded("r1") /\ Succeeded("r2")
    /\ Len(responses["r1"]) = Len(responses["r2"])
    /\ \A k \in 1..(Len(responses["r1"]) - 1) :
          k # 3 => responses["r1"][k] = responses["r2"][k]
    /\ addResult["r1"][1].added = Len(matched["r1"])
    /\ addResult["r2"][1].added < Len(matched["r2"])
    /\ addResult["r2"][1].failed > 0

\* C19: for every adapter that exchanges the code for a token (Spotify,
\* YouTube Music, KKBox), handleCallback fails with an error, returning no
\* TokenData, when the platform answers the exchange with a non-success
\* response, and it sends the exchange request once only.
C19_RejectedExchangeFails ==
    (/\ auth.pc = "done"
     /\ auth.provider \in {"spotify", "youtube-music", "kkbox"}
     /\ auth.answer.fetch = "rejected")
    => (auth.outcome.kind = "raise" /\ Len(auth.outcome.requests) = 1)

\* C20: the provider registry is read-only.  In every state, whatever the
\* handlers and engine runs have done, the registry holds the four adapters
\* built at load time: getProvider returns the adapter registered under
\* spotify, youtube-music, apple-music or kkbox, the same one on every call,
\* and nothing for any other id, and getProviderList lists the four in that
\* order.
C20_RegistryReadOnly ==
    LET spotify == [id |-> "spotify", name |-> "Spotify"]
        youtube == [id |-> "youtube-music", name |-> "YouTube Music"]
        apple == [id |-> "apple-music", name |-> "Apple Music"]
        kkbox == [id |-> "kkbox", name |-> "KKBox"]
    IN  /\ registry = <<spotify, youtube, apple, kkbox>>
        /\ getProvider("spotify") = <<spotify>>
        /\ getProvider("youtube-music") = <<youtube>>
        /\ getProvider("apple-music") = <<apple>>
        /\ getProvider("kkbox") = <<kkbox>>
        /\ \A name \in {"", "tidal", "Spotify", "youtube"} : getProvider(name) = <<>>
        /\ getProviderList = <<spotify, youtube, apple, kkbox>>

\* Both request slots have been served: one transfer ran to its end and one
\* request was refused at validation.
C20_Witness ==
    \E r, q \in Runs :
        /\ Succeeded(r) /\ pc[r] = "done"
        /\ status[q] = 400 /\ pc[q] = "done"

\* The items of the first n pages of a chain, in page order and in-page order.
RECURSIVE ItemsOfPages(_, _)
ItemsOfPages(chain, n) ==
    IF n = 0 THEN <<>> ELSE ItemsOfPages(chain, n - 1) \o chain[n]

\* C21: getPlaylistTracks follows pagination to exhaustion and keeps the
\* source order.  Pages are requested one at a time, in chain order, each once;
\* the tracks collected are those of the pages read so far, in page order and
\* in-page order, none dropped and none duplicated; and the call returns only
\* when the last page, the one without a next cursor, has been read.
C21_Pagination ==
    listing.pc \notin {"idle"}
    => LET pageReqs == SelectSeq(listing.requests, LAMBDA q : q.kind = "page")
           done == IF listing.pc = "returned" THEN listing.cursor ELSE listing.cursor - 1
           tracksOf(items) == SelectSeq(items, LAMBDA x : x # 0)
       IN  /\ pageReqs = [k \in 1..listing.cursor |-> Request("page", <<k>>)]
           /\ listing.tracks = tracksOf(ItemsOfPages(listing.chain, done))
           /\ listing.pc = "returned" => listing.cursor = Len(listing.chain)

\* A call returned after reading a chain of two pages of two tracks each.
C21_Witness ==
    /\ listing.pc = "returned"
    /\ Len(listing.chain) >= 2
    /\ \A k \in 1..Len(listing.chain) : Len(listing.chain[k]) = 2
    /\ listing.chain[1] # listing.chain[2]
    /\ Len(listing.tracks) = 4

\* The adapter calls of a run over n source tracks, in the order of the steps.
ExpectedCalls(n) ==
    <<"getPlaylists", "getPlaylistTracks", "createPlaylist">>
        \o [k \in 1..n |-> "searchTrack"] \o <<"addTracks">>

\* The phase whose progress event precedes each adapter call.
PhaseOfCall(op) ==
    CASE op = "getPlaylists" -> "fetching"
      [] op = "getPlaylistTracks" -> "reading"
      [] op = "createPlaylist" -> "creating"
      [] op = "searchTrack" -> "matching"
      [] op = "addTracks" -> "transferring"

\* The run has returned or failed.
Ended(r) == pc[r] \in {"returned", "threw", "done"}

\* The calls issued so far are in step order, one at a time, each right
\* after the progress event of its phase.
CallsInStepOrder ==
    \A r \in Runs :
        LET ops == [k \in 1..Len(calls[r]) |-> calls[r][k].op]
            n == Len(sourceTracks[r])
        IN  /\ IsPrefix(ops, ExpectedCalls(n))
            /\ ~TracksRead(r) => Len(ops) <= 2
            /\ \A k \in 1..Len(calls[r]) :
                  /\ calls[r][k].side = (IF k <= 2 THEN "source" ELSE "target")
                  /\ calls[r][k].after = k
                  /\ stream[r][k].type = "progress"
                  /\ stream[r][k].phase = PhaseOfCall(calls[r][k].op)
            /\ Len(pending[r]) <= 1
            /\ Len(calls[r]) = Len(responses[r]) + Len(pending[r])
            /\ Ended(r) => pending[r] = <<>>

\* A step leaves the calls and progress events of every ended run as they are.
QuietAfterEnd ==
    \A r \in Runs :
        Ended(r) => /\ calls'[r] = calls[r]
                    /\ pending'[r] = <<>>
                    /\ SelectSeq(stream'[r], LAMBDA e : e.type = "progress") = ProgressOf(r)

\* C22: the adapter calls of a run are a prefix of getPlaylists(source),
\* getPlaylistTracks(source), createPlaylist(target), searchTrack(target) x N,
\* addTracks(target); each call is issued only when every earlier call has
\* resolved and right after the progress event of its phase; and once the
\* run has returned or failed no adapter call is issued and no progress
\* event is emitted any more.
C22_CallsInOrder == []CallsInStepOrder /\ [][QuietAfterEnd]_vars

\* A run over several tracks has called addTracks and come to its end.
C22_Witness ==
    /\ pc["r1"] = "done" /\ Succeeded("r1")
    /\ Len(sourceTracks["r1"]) >= 2
    /\ Len(calls["r1"]) = Len(sourceTracks["r1"]) + 4

\* How far a run has come: the step its handler is suspended in.
StepOf(p) ==
    CASE p = "idle" -> 0
      [] p = "getPlaylists" -> 1
      [] p = "getPlaylistTracks" -> 2
      [] p = "createPlaylist" -> 3
      [] p = "searchTrack" -> 4
      [] p = "addTracks" -> 5
      [] p \in {"returned", "threw"} -> 6
      [] p = "done" -> 7
      [] OTHER -> -1

\* The request was accepted and its transferPlaylist run has ended.
RunEnded(r) == status[r] = 200 /\ Ended(r)

\* A run has a terminal outcome exactly when it has ended, and then exactly
\* one: a TransferResult or a failure.  No call is made twice.
OneOutcome ==
    \A r \in Runs :
        /\ RunEnded(r) => (Succeeded(r) /\ ~Failed(r)) \/ (Failed(r) /\ ~Succeeded(r))
        /\ ~RunEnded(r) => ~Succeeded(r) /\ ~Failed(r)
        /\ \A j, k \in 1..Len(calls[r]) :
              j < k => <<calls[r][j].op, calls[r][j].tracks>>
                         # <<calls[r][k].op, calls[r][k].tracks>>

\* A step never takes a run back to an earlier step or an earlier track,
\* never takes back an event or an answered call, and never changes the
\* outcome of a run that has ended.
NeverBack ==
    \A r \in Runs :
        /\ StepOf(pc'[r]) >= StepOf(pc[r])
        /\ loopIdx'[r] >= loopIdx[r]
        /\ IsPrefix(stream[r], stream'[r])
        /\ IsPrefix(responses[r], responses'[r])
        /\ Ended(r) => result'[r] = result[r] /\ error'[r] = error[r]

\* C23: provided every adapter call eventually resolves, every run of
\* transferPlaylist that has started eventually ends, with exactly one
\* terminal outcome (a returned TransferResult or a failure) after its
\* progress events; it makes no call twice and never goes back to an earlier
\* phase.
C23_Terminates ==
    /\ \A r \in Runs : (status[r] = 200) ~> RunEnded(r)
    /\ []OneOutcome
    /\ [][NeverBack]_vars

\* A run failed in the matching loop after progress events of four phases.
C23_Witness ==
    /\ pc["r1"] = "done" /\ Failed("r1")
    /\ HasPhase("r1", "matching") /\ loopIdx["r1"] >= 1
    /\ HasTerminal("r1", "error")

\* The source tracks whose search has been answered with the given kind, in
\* source order.
TracksAnswered(r, kind) ==
    LET n == Len(sourceTracks[r])
        tagged == [k \in 1..n |-> [k |-> k, track |-> sourceTracks[r][k]]]
        sel == SelectSeq(tagged, LAMBDA x : /\ Answered(r, 3 + x.k)
                                            /\ responses[r][3 + x.k].kind = kind)
    IN  [k \in 1..Len(sel) |-> sel[k].track]

NoRaise(r) == \A k \in 1..Len(responses[r]) : responses[r][k].kind # "raise"

\* C24: a miss never aborts the transfer.  As long as no adapter call raises,
\* whatever tracks searchTrack does not find (all of them included), the run
\* does not fail: after each answer it is searching the next track or, past
\* the last one, in addTracks; and when it ends it has searched every track,
\* called addTracks once, emitted complete, and returned a TransferResult
\* whose unmatched list is exactly the missed source tracks.
C24_MissesDoNotAbort ==
    \A r \in Runs :
        (OpReturned(r, "createPlaylist") /\ NoRaise(r))
        => LET n == Len(sourceTracks[r])
               answers == Len(responses[r]) - 3
           IN  /\ ~Failed(r)
               /\ answers < n
                  => /\ pc[r] = "searchTrack"
                     /\ pending[r] = <<Call("target", "searchTrack", "", 0,
                                            <<sourceTracks[r][answers + 1]>>,
                                            3 + answers + 1)>>
               /\ answers = n => pc[r] = "addTracks" /\ Len(CallsOf(r, "addTracks")) = 1
               /\ answers > n
                  => /\ Succeeded(r) /\ HasPhase(r, "complete")
                     /\ Len(CallsOf(r, "searchTrack")) = n
                     /\ Len(CallsOf(r, "addTracks")) = 1
                     /\ result[r][1].unmatched = TracksAnswered(r, "miss")

\* A run over several tracks, none of them found, has returned its result.
C24_Witness ==
    /\ Succeeded("r1") /\ pc["r1"] = "done"
    /\ Len(sourceTracks["r1"]) >= 2
    /\ TracksAnswered("r1", "miss") = sourceTracks["r1"]
    /\ result["r1"][1].matched = <<>>

\* The target tracks searchTrack returned for the source tracks it found, in
\* source order.
FoundFor(r) ==
    LET n == Len(sourceTracks[r])
        sel == SelectSeq([k \in 1..n |-> k],
                         LAMBDA k : Answered(r, 3 + k) /\ responses[r][3 + k].kind = "hit")
    IN  [k \in 1..Len(sel) |-> responses[r][3 + sel[k]].value[1]]

NoDuplicates(q) == \A j, k \in 1..Len(q) : j # k => q[j] # q[k]

\* C25: in every TransferResult, matched is the sequence of tracks searchTrack
\* returned, in source-track order, and unmatched is the subsequence of the
\* source tracks that were not found, in source order; a source track that
\* was found is not in unmatched, and neither list repeats a track.
C25_Buckets ==
    \A r \in Runs :
        Succeeded(r)
        => LET res == result[r][1]
               hitSources == TracksAnswered(r, "hit")
           IN  /\ res.matched = FoundFor(r)
               /\ res.unmatched = TracksAnswered(r, "miss")
               /\ \A k \in 1..Len(res.matched) : res.matched[k].origin = "target"
               /\ \A k \in 1..Len(res.unmatched) :
                     /\ res.unmatched[k].origin = "source"
                     /\ \A j \in 1..Len(hitSources) : hitSources[j] # res.unmatched[k]
               /\ NoDuplicates(res.matched) /\ NoDuplicates(res.unmatched)
               /\ Len(res.matched) + Len(res.unmatched) = Len(sourceTracks[r])

\* A result over three tracks: the first and the last found, the second not.
C25_Witness ==
    /\ Succeeded("r1")
    /\ Len(sourceTracks["r1"]) = 3
    /\ Len(result["r1"][1].matched) = 2
    /\ result["r1"][1].unmatched = <<sourceTracks["r1"][2]>>

\* C26: if searchTrack raises while the k-th source track is being matched,
\* the run fails there: k searchTrack calls and k matching events and no
\* more, no addTracks call, no transferring or complete event, and no
\* TransferResult, in that state and ever after.
C26_SearchRaiseFails ==
    \A r \in Runs :
        \A k \in 1..Len(sourceTracks[r]) :
            RaisedAt(r, 3 + k)
            => /\ Failed(r) /\ ~Succeeded(r)
               /\ pc[r] \in {"threw", "done"}
               /\ Len(responses[r]) = 3 + k
               /\ Len(CallsOf(r, "searchTrack")) = k
               /\ Len(SelectSeq(Phases(r), LAMBDA ph : ph = "matching")) = k
               /\ CallsOf(r, "addTracks") = <<>>
               /\ ~HasPhase(r, "transferring") /\ ~HasPhase(r, "complete")
               /\ ~HasTerminal(r, "complete")
               /\ pending[r] = <<>>

\* The search of the second of three tracks raised and the route has closed
\* the stream on the error.
C26_Witness ==
    /\ Len(sourceTracks["r1"]) = 3
    /\ RaisedAt("r1", 5)
    /\ pc["r1"] = "done" /\ closed["r1"]

\* C27: every progress event emitted, in every phase, for every playlist size
\* and every pattern of hits and misses, has 0 <= current <= total.
C27_CurrentWithinTotal ==
    \A r \in Runs :
        \A k \in 1..Len(stream[r]) :
            stream[r][k].type = "progress"
            => /\ 0 <= stream[r][k].current
               /\ stream[r][k].current <= stream[r][k].total

\* A run has emitted all its progress events, the last with current < total.
C27_Witness ==
    /\ HasPhase("r1", "complete")
    /\ Len(sourceTracks["r1"]) >= 2
    /\ \E k \in 1..Len(stream["r1"]) :
          /\ stream["r1"][k].type = "progress" /\ stream["r1"][k].phase = "complete"
          /\ stream["r1"][k].current >= 1
          /\ stream["r1"][k].current < stream["r1"][k].total

\* C28: when the stream delivers a terminal event of type error, the client
\* surfaces the failure: startTransfer ends having alerted "Transfer
\* failed: <message>" with the event's message, result is still null and
\* isTransferring is false.
C28_ErrorSurfaced ==
    (/\ client.pc = "done"
     /\ \E k \in 1..Len(client.applied) : client.applied[k].type = "error")
    => LET err == client.applied[Len(client.applied)]
       IN  /\ client.alerts = <<<<"Transfer failed", err.error>>>>
           /\ client.result = <<>>
           /\ ~client.isTransferring

\* C30: the client handles every event the server enqueued exactly once and
\* in order, however the transport cuts the body into chunks: when the
\* stream has been read to its end, the events the client has dispatched on
\* are the events sent, as they are when each event arrives in a chunk of
\* its own.
C30_ChunkingInvisible ==
    (client.pc = "done" /\ client.sent # <<>>)
    => client.applied = client.sent

\* The ids of the tracks addTracks was called with.
ArgumentIds == {add.tracks[k].id : k \in 1..Len(add.tracks)}

\* The ids addTracks has submitted to the target playlist so far.
SubmittedIds ==
    UNION {{add.requests[k].ids[j] : j \in 1..Len(add.requests[k].ids)} :
              k \in {i \in 1..Len(add.requests) : add.requests[i].kind = "add"}}

\* C29: every track id an adapter's addTracks submits to the target playlist
\* is the id of a track in its tracks argument; the search it runs again on an
\* already resolved track never puts another track in its place.
C29_SubmitsItsArgument ==
    SubmittedIds \subseteq ArgumentIds

====
